---- MODULE Spec2Model ----
(***************************************************************************)
(* The RSS-to-Bluesky bot: one account worker's polling cycle              *)
(* (bot/bot_logic.py, utils/rss_parser.py, bot/post_handler.py) over the   *)
(* posts table (bot/db_handler.py) and the remote account's feed.          *)
(*                                                                         *)
(* Specifications.                                                         *)
(*   SpecRun      BotLogic.run as written: its call of                     *)
(*                fetch_new_rss_entries passes the keyword max_entries,    *)
(*                which the function does not declare, so the call raises  *)
(*                and the cycle ends in run()'s outer handler.             *)
(*   FairSpecRun  SpecRun with the worker's thread kept scheduled.         *)
(*   Spec         the same cycle with fetch_new_rss_entries entered        *)
(*                through the three parameters it declares: the duplicate  *)
(*                check, the feed scan, publishing and recording as their  *)
(*                code has them.                                           *)
(*   SpecNoFail   Spec while every create-post call and every ledger write *)
(*                succeeds.                                                *)
(*   SpecCompose  the composing step of post_entry on its own.             *)
(*   SpecFacets   parse_facets on its own.                                 *)
(*   SpecEnrich   the choice of a post's embed (link card, then image).    *)
(*   SpecMigrate  DatabaseHandler opened on a store of any schema.         *)
(*   SpecLedger   two accounts' handlers sharing one store.                *)
(*   SpecMain     main(): one thread per account and the restart loop.     *)
(*   FairSpecMain SpecMain with every thread kept scheduled.               *)
(*   SpecCold     DatabaseHandler statement by statement, the process      *)
(*                killed between statements and started again.             *)
(*   SpecRace     two handlers opened on one store at the same time.       *)
(*   SpecPublish  run()'s body for one entry: post_entry, then save_post.  *)
(***************************************************************************)
EXTENDS Integers, Sequences, FiniteSets, TLC

VARIABLES
    cfg,           \* config.yaml flags read by the worker
    pc,            \* the worker's position in BotLogic.run
    recent_posts,  \* run(): snapshot of the account's recent post first lines
    feed,          \* fetch_new_rss_entries: number of feed.entries still to scan
    scanned,       \* number of feed entries scanned in this cycle
    new_entries,   \* run(): entries still to post in this cycle
    posts,         \* db_handler: rows of the posts table
    remote,        \* posts on the remote account, oldest first
    last,          \* the latest duplicate check or publish of this cycle
    settled,       \* history: items published and recorded in an earlier cycle
    recordedNow,   \* history: items published and recorded in this cycle
    raisedIdx,     \* history: feed positions whose duplicate check raised
    snapFailed,    \* history: this cycle's recent-activity fetch failed
    snapCalls,     \* history: recent-activity fetches made in this cycle
    cycle,         \* number of polling cycles completed by Spec's worker
    login,         \* _login_with_retries: retries, delay, time slept so far
    compose,       \* post_entry's composing step on its own: inputs and text
    parse,         \* parse_facets on its own: the text and the facets
    enrich,        \* post_entry's enrichment steps on their own: the page, the embed
    store,         \* the sqlite file on its own: its tables
    mig,           \* DatabaseHandler.__init__ on its own: opens so far, what they met
    ledger,        \* the handlers sharing the store: who is open, the latest call
    main,          \* main(): the configured accounts, their threads, the restarts made
    cold,          \* the store's handlers statement by statement, the open transaction
    publish        \* run()'s per-entry body on its own: the entry, the result, the row

vars == <<cfg, pc, recent_posts, feed, scanned, new_entries, posts, remote, last,
          settled, recordedNow, raisedIdx, snapFailed, snapCalls, cycle, login, compose,
          parse,
          enrich,
          store,
          mig,
          ledger,
          main,
          cold,
          publish>>

\* the worker's variables
worker == <<cfg, pc, recent_posts, feed, scanned, new_entries, posts, remote, last,
            settled, recordedNow, raisedIdx, snapFailed, snapCalls, cycle, login>>

\* variables of the specifications beside the worker's
aside == <<compose, parse, enrich, store, mig, ledger, main, cold, publish>>

(***************************************************************************)
(* Bounds of the model.                                                    *)
(***************************************************************************)
MaxFeed == 2        \* entries in one feed snapshot
MaxCycles == 2      \* polling cycles explored
\* values of config.yaml, which the worker reads at run time
PostsToCheck == 2   \* bot.posts_to_check: recent posts fetched per cycle
MinPostDate == 1    \* rss.min_post_date, on the scale of the entries' dates
max_retries == 3    \* bot.max_retries
initial_delay == 1  \* bot.initial_delay

(***************************************************************************)
(* Data.  Titles, links and post texts are sequences of characters.        *)
(***************************************************************************)
Account == "default"

NL == "\n"
FeedEntry(title, link, published) ==
    [title |-> title, link |-> link, published |-> published]
\* The feed's items: two titles, one a case-insensitive substring of the other, on
\* two links; one item dated at the minimum date, one before it.
FeedEntries ==
    { FeedEntry(<<"A">>, <<"x">>, 1), FeedEntry(<<"a", "b">>, <<"x">>, 2),
      FeedEntry(<<"A">>, <<"y">>, 2), FeedEntry(<<"a", "b">>, <<"y">>, 0) }
ImageUrls == {"none", "img"}
NoLast == [kind |-> "none"]
NoCompose == [state |-> "none"]
NoParse == [state |-> "none"]
NoEnrich == [state |-> "none"]
NoStore == [state |-> "none"]
NoMig == [state |-> "none"]
NoLedger == [state |-> "none"]
NoMain == [state |-> "none"]
NoCold == [state |-> "none"]
NoPublish == [state |-> "none"]
Now == [kind |-> "now"]
EntryDate(d) == [kind |-> "entry", date |-> d]

Min(a, b) == IF a < b THEN a ELSE b
Max(a, b) == IF a > b THEN a ELSE b

\* str.lower() on one character and on a string
LowerChar(c) == IF c = "A" THEN "a" ELSE IF c = "B" THEN "b" ELSE c
Lower(s) == [k \in 1..Len(s) |-> LowerChar(s[k])]

\* Python's `sub in s` on strings
Contains(sub, s) ==
    \E k \in 0..(Len(s) - Len(sub)) : SubSeq(s, k + 1, k + Len(sub)) = sub

\* Python's s[:k], k possibly negative
SliceTo(s, k) ==
    IF k >= 0 THEN SubSeq(s, 1, Min(k, Len(s)))
    ELSE SubSeq(s, 1, Max(0, Len(s) + k))

\* text.split('\n')[0]
FirstLine(s) ==
    IF \E k \in 1..Len(s) : s[k] = NL
    THEN SubSeq(s, 1, (CHOOSE k \in 1..Len(s) : s[k] = NL /\ \A m \in 1..(k - 1) : s[m] # NL) - 1)
    ELSE s

RECURSIVE Flatten(_)
Flatten(ss) == IF ss = <<>> THEN <<>> ELSE Head(ss) \o Flatten(Tail(ss))

(***************************************************************************)
(* Composing the post text (PostHandler.post_entry, first part).  A post   *)
(* format is a sequence of tokens: the placeholders "{title}" and          *)
(* "{link}", and single characters.                                        *)
(***************************************************************************)
CharLimit == 300
Ellipsis == <<"â", "€", "¦">>
DefaultFormat ==
    <<"{title}", NL, NL, "R", "e", "a", "d", " ", "m", "o", "r", "e", ":", " ", "{link}">>

TokenLen(t) == IF t = "{title}" THEN 7 ELSE IF t = "{link}" THEN 6 ELSE 1

RECURSIVE FormatLen(_)
FormatLen(fmt) == IF fmt = <<>> THEN 0 ELSE TokenLen(Head(fmt)) + FormatLen(Tail(fmt))

format_overhead(fmt) == FormatLen(fmt) - 7 - 6

max_title_length(fmt, link) == CharLimit - format_overhead(fmt) - Len(link)

TruncatedTitle(fmt, title, link) ==
    IF Len(title) > max_title_length(fmt, link)
    THEN SliceTo(title, max_title_length(fmt, link) - 1) \o Ellipsis
    ELSE title

\* post_format.format(title=title, link=link)
FormatWith(fmt, title, link) ==
    Flatten([k \in 1..Len(fmt) |->
        IF fmt[k] = "{title}" THEN title
        ELSE IF fmt[k] = "{link}" THEN link
        ELSE <<fmt[k]>>])

formatted_text(fmt, title, link) == FormatWith(fmt, TruncatedTitle(fmt, title, link), link)

(***************************************************************************)
(* The posts table (DatabaseHandler): the set of its rows, without the     *)
(* autoincrement id (no statement reads it) and the wall-clock posted_at.  *)
(***************************************************************************)
NoUri == 0
Row(account, rss_url, title, published_date, bluesky_uri, bluesky_url) ==
    [account_name |-> account, rss_url |-> rss_url, title |-> title,
     published_date |-> published_date,
     bluesky_uri |-> bluesky_uri, bluesky_url |-> bluesky_url]

\* a lookup by link alone, without the lookup by title
is_posted_by_url(table, account, rss_url, title) ==
    rss_url # <<>> /\ \E row \in table : row.account_name = account /\ row.rss_url = rss_url

\* a lookup over the rows of every account
is_posted_any_account(table, account, rss_url, title) ==
    \/ rss_url # <<>> /\ \E row \in table : row.rss_url = rss_url
    \/ title # <<>> /\ \E row \in table : row.title = title

\* is_posted: by RSS URL first, then by title
is_posted(table, account, rss_url, title) ==
    \/ /\ rss_url # <<>>
       /\ \E row \in table : row.account_name = account /\ row.rss_url = rss_url
    \/ /\ title # <<>>
       /\ \E row \in table : row.account_name = account /\ row.title = title

\* is_posted: the SELECT at which it returns True ("url", then "title"), "none" for False
is_posted_step(table, account, rss_url, title) ==
    IF rss_url # <<>> /\ \E row \in table : row.account_name = account /\ row.rss_url = rss_url
    THEN "url"
    ELSE IF title # <<>> /\ \E row \in table : row.account_name = account /\ row.title = title
    THEN "title"
    ELSE "none"

\* a write that stores nothing
save_post_dropped(table, account, rss_url, title, published_date, bluesky_uri, bluesky_url) ==
    table

\* a write that inserts whatever the table holds
save_post_plain_insert(table, account, rss_url, title, published_date, bluesky_uri, bluesky_url) ==
    table \cup {Row(account, rss_url, title, published_date, bluesky_uri, bluesky_url)}

\* a write that replaces the row stored under the key (INSERT OR REPLACE)
save_post_replace(table, account, rss_url, title, published_date, bluesky_uri, bluesky_url) ==
    {row \in table : ~(row.account_name = account /\ row.rss_url = rss_url)}
    \cup {Row(account, rss_url, title, published_date, bluesky_uri, bluesky_url)}

\* save_post: INSERT OR IGNORE under UNIQUE(account_name, rss_url)
save_post(table, account, rss_url, title, published_date, bluesky_uri, bluesky_url) ==
    IF \E row \in table : row.account_name = account /\ row.rss_url = rss_url
    THEN table
    ELSE table \cup {Row(account, rss_url, title, published_date, bluesky_uri, bluesky_url)}

(***************************************************************************)
(* The duplicate check (is_already_posted_wrapper in BotLogic.run).        *)
(* dbRaises, saveRaises: whether sqlite raises in is_posted, in save_post. *)
(***************************************************************************)
\* a snapshot that never matches
SnapshotHit_never(title, snapshot) == FALSE

\* any(title.lower() in post.lower() for post in recent_posts)
SnapshotHit(title, snapshot) ==
    \E k \in 1..Len(snapshot) : Contains(Lower(title), Lower(snapshot[k]))

\* a wrapper that fetches the recent posts itself, at every call
WrapperSnapshot_refetched ==
    [posts |-> [k \in 1..Min(PostsToCheck, Len(remote)) |->
                  FirstLine(remote[Len(remote) - k + 1].text)],
     calls |-> 1]

\* the snapshot the wrapper compares against, and the remote calls it makes for it
WrapperSnapshot == [posts |-> recent_posts, calls |-> 0]

\* rss_url or title
OrTitle(rss_url, title) == IF rss_url # <<>> THEN rss_url ELSE title

\* a snapshot match that records nothing
Backfill_skipped(table, title, rss_url, saveRaises) == table

Backfill(table, title, rss_url, saveRaises) ==
    IF cfg.auto_sync_to_database /\ cfg.check_database /\ ~saveRaises
    THEN save_post(table, Account, OrTitle(rss_url, title), title, Now, NoUri, "none")
    ELSE table

\* a lookup error answered with "not a duplicate"
OnLookupError_open == FALSE

OnLookupError == TRUE   \* except Exception: return True

\* a check that consults the snapshot before the ledger
is_already_posted_wrapper_snapshot_first(title, rss_url, dbRaises, saveRaises) ==
    IF cfg.check_bluesky_backup /\ SnapshotHit(title, WrapperSnapshot.posts)
    THEN [result |-> TRUE, posts |-> Backfill(posts, title, rss_url, saveRaises),
          raised |-> FALSE, hit |-> "bluesky", step |-> "none",
          calls |-> WrapperSnapshot.calls]
    ELSE IF cfg.check_database /\ dbRaises
    THEN [result |-> OnLookupError, posts |-> posts, raised |-> TRUE, hit |-> "error",
          step |-> "none", calls |-> 0]
    ELSE IF cfg.check_database /\ is_posted(posts, Account, rss_url, title)
    THEN [result |-> TRUE, posts |-> posts, raised |-> FALSE, hit |-> "database",
          step |-> is_posted_step(posts, Account, rss_url, title), calls |-> 0]
    ELSE [result |-> FALSE, posts |-> posts, raised |-> FALSE, hit |-> "none",
          step |-> "none",
          calls |-> IF cfg.check_bluesky_backup THEN WrapperSnapshot.calls ELSE 0]

is_already_posted_wrapper(title, rss_url, dbRaises, saveRaises) ==
    IF cfg.check_database /\ dbRaises
    THEN [result |-> OnLookupError, posts |-> posts, raised |-> TRUE, hit |-> "error",
          step |-> "none", calls |-> 0]
    ELSE IF cfg.check_database /\ is_posted(posts, Account, rss_url, title)
    THEN [result |-> TRUE, posts |-> posts, raised |-> FALSE, hit |-> "database",
          step |-> is_posted_step(posts, Account, rss_url, title), calls |-> 0]
    ELSE IF cfg.check_bluesky_backup /\ SnapshotHit(title, WrapperSnapshot.posts)
    THEN [result |-> TRUE, posts |-> Backfill(posts, title, rss_url, saveRaises),
          raised |-> FALSE, hit |-> "bluesky", step |-> "none",
          calls |-> WrapperSnapshot.calls]
    ELSE [result |-> FALSE, posts |-> posts, raised |-> FALSE, hit |-> "none",
          step |-> "none",
          calls |-> IF cfg.check_bluesky_backup THEN WrapperSnapshot.calls ELSE 0]

(***************************************************************************)
(* The remote account: every post created on it, oldest first.  `link` and *)
(* `title` name the item a post was created for.                           *)
(***************************************************************************)
RemotePost(text, title, link) == [text |-> text, title |-> title, link |-> link]

\* _get_recent_posts on success: first line of each of the latest posts, newest first
RecentOf(r) ==
    [k \in 1..Min(PostsToCheck, Len(r)) |-> FirstLine(r[Len(r) - k + 1].text)]

\* _get_recent_posts on any error: except Exception: return []
OnRecentError == <<>>

Item(e) == [title |-> e.title, link |-> e.link]

(***************************************************************************)
(* post_entry: compose, pick the embed, send (with one retry without the   *)
(* embed), derive uri and url.  embed: what the enrichment steps produced; *)
(* ok1, ok2: whether the first and the second send_post call succeed.      *)
(* The url is "url" for either permalink (by handle, or by DID when the    *)
(* handle does not resolve).                                               *)
(***************************************************************************)
\* embeds post_entry can end up with, by the flag and the entry's image_url
EmbedChoices(image_url) ==
    IF ~cfg.include_images THEN {"none"}
    ELSE {"card", "none"} \cup (IF image_url = "img" THEN {"image"} ELSE {})

\* a first failure that is never retried
RetryAfterFailure_never(embed) == FALSE

\* after the first send_post raised: retry only when an embed was attached
RetryAfterFailure(embed) == embed # "none"

\* whether the except branch of the first send leaves post_entry by raising
RaisesAfterFailure(embed, ok2) == RetryAfterFailure(embed) /\ ~ok2

post_entry(entry, embed, ok1, ok2) ==
    LET text == formatted_text(DefaultFormat, entry.title, entry.link)
        retried == ~ok1 /\ RetryAfterFailure(embed)
        sent == ok1 \/ (retried /\ ok2)
        raised == ~ok1 /\ RaisesAfterFailure(embed, ok2)
        at_uri == IF sent THEN 1 ELSE NoUri
        url == IF at_uri = NoUri THEN "none" ELSE "url"
        first == [text |-> text, embed |-> embed, ok |-> ok1]
        second == [text |-> text, embed |-> "none", ok |-> ok2]
    IN [returned |-> ~raised, sent |-> sent, attempts |-> IF retried THEN 2 ELSE 1,
        uri |-> at_uri, url |-> url, text |-> text,
        embed |-> IF ok1 THEN embed ELSE "none",
        sends |-> IF retried THEN <<first, second>> ELSE <<first>>]

(***************************************************************************)
(* The worker.  feedparser.parse fixes the feed snapshot; the model draws  *)
(* its length at the parse and each entry when the loop reads it (nothing  *)
(* the worker does in between can change the snapshot).  In the same way   *)
(* an entry's image_url, fetched in the scan and read only by post_entry,  *)
(* is drawn where post_entry reads it.                                     *)
(***************************************************************************)
\* include_images is at its default in post_entry, config['bot'].get('include_images', True)
Flags == [check_database : BOOLEAN, check_bluesky_backup : BOOLEAN,
          auto_sync_to_database : BOOLEAN, include_images : {TRUE}]

\* _login_with_retries at its entry; attempts counts the client.login calls, session
\* is whether one of them succeeded, outcome is that of the latest call, rejected is
\* whether the service has refused the session since
LoginStart ==
    [retries |-> 0, delay |-> initial_delay, slept |-> 0, attempts |-> 0,
     session |-> FALSE, outcome |-> "none", rejected |-> FALSE]
\* _login_with_retries after client.login succeeded at the first call
LoggedIn ==
    [retries |-> 0, delay |-> initial_delay, slept |-> 0, attempts |-> 1,
     session |-> TRUE, outcome |-> "ok", rejected |-> FALSE]

\* The worker constructed and logged in at the first attempt, the ledger fresh.
Init ==
    /\ cfg \in Flags
    /\ pc = "start"
    /\ login = LoggedIn
    /\ compose = NoCompose
    /\ recent_posts = <<>>
    /\ feed = 0
    /\ scanned = 0
    /\ new_entries = <<>>
    /\ posts = {}
    /\ remote = <<>>
    /\ last = NoLast
    /\ settled = {}
    /\ recordedNow = {}
    /\ raisedIdx = {}
    /\ snapFailed = FALSE
    /\ snapCalls = 0
    /\ cycle = 0
    /\ publish = NoPublish
    /\ cold = NoCold
    /\ main = NoMain
    /\ ledger = NoLedger
    /\ mig = NoMig
    /\ store = NoStore
    /\ enrich = NoEnrich
    /\ parse = NoParse

\* _get_recent_posts: client.get_profile and client.get_author_feed return or raise;
\* they are made with the session of the one login, and without a session that the
\* service accepts they raise
SnapshotOutcomes(session) == IF session THEN BOOLEAN ELSE {FALSE}

\* run(): top of the loop; recent_posts = [] or self._get_recent_posts()
GetRecentPosts ==
    /\ pc = "start"
    /\ cycle < MaxCycles
    /\ \E ok \in (IF cfg.check_bluesky_backup
                  THEN SnapshotOutcomes(login.session /\ ~login.rejected)
                  ELSE {TRUE}) :
        /\ recent_posts' = IF cfg.check_bluesky_backup
                           THEN (IF ok THEN RecentOf(remote) ELSE OnRecentError)
                           ELSE <<>>
        /\ snapFailed' = (cfg.check_bluesky_backup /\ ~ok)
        /\ snapCalls' = snapCalls + (IF cfg.check_bluesky_backup THEN 1 ELSE 0)
    /\ pc' = "fetch"
    /\ UNCHANGED <<aside, cfg, feed, scanned, new_entries, posts, remote, last, settled,
                   recordedNow, raisedIdx, cycle, login>>

\* fetch_new_rss_entries: feedparser.parse; a bozo feed or an error returns []
ParseFeed ==
    /\ pc = "fetch"
    /\ \E n \in 0..MaxFeed :
        /\ feed' = n       \* 0 also stands for a bozo feed or an error: no entries
        /\ pc' = IF n = 0 THEN "post" ELSE "scan"
    /\ new_entries' = <<>>
    /\ UNCHANGED <<aside, cfg, recent_posts, scanned, posts, remote, last, settled,
                   recordedNow, raisedIdx, snapFailed, snapCalls, cycle, login>>

\* a date filter that also drops the minimum date itself
TooOld_inclusive(published) == published <= MinPostDate

\* if published < min_date: continue
TooOld(published) == published < MinPostDate

\* an article page fetched for every entry scanned
FetchesImage_always(is_duplicate) == TRUE

\* fetch_new_rss_entries: fetch_image_url is reached only past the `continue` of an
\* entry already posted
FetchesImage(is_duplicate) == ~is_duplicate

\* fetch_new_rss_entries: one pass of `for entry in feed.entries`.
\* DbRaises, SaveRaises: the outcomes sqlite may have in is_posted and in
\* save_post (does the call raise?).
ScanEntryIn(DbRaises, SaveRaises) ==
    /\ pc = "scan"
    /\ feed > 0
    /\ \E entry \in FeedEntries :
       LET idx == scanned + 1
           old == TooOld(entry.published)
       IN \E dbRaises \in (IF cfg.check_database /\ ~old THEN DbRaises ELSE {FALSE}),
             saveRaises \in (IF cfg.check_database /\ cfg.auto_sync_to_database
                                /\ cfg.check_bluesky_backup /\ ~old
                             THEN SaveRaises ELSE {FALSE}) :
          LET r == is_already_posted_wrapper(entry.title, entry.link, dbRaises, saveRaises)
          IN IF old
             THEN /\ last' = [kind |-> "old", idx |-> idx, title |-> entry.title,
                              link |-> entry.link, published |-> entry.published]
                  /\ UNCHANGED <<new_entries, posts, raisedIdx, snapCalls>>
             ELSE /\ saveRaises => r.hit = "bluesky"
                  /\ last' = [kind |-> "check", idx |-> idx, title |-> entry.title,
                              link |-> entry.link, published |-> entry.published,
                              result |-> r.result,
                              raised |-> r.raised, hit |-> r.hit, step |-> r.step,
                              calls |-> r.calls, imageFetched |-> FetchesImage(r.result),
                              saveRaised |-> saveRaises, pre |-> posts]
                  /\ posts' = r.posts
                  /\ snapCalls' = snapCalls + r.calls
                  /\ raisedIdx' = IF r.raised THEN raisedIdx \cup {idx} ELSE raisedIdx
                  /\ new_entries' =
                          IF r.result THEN new_entries
                          ELSE Append(new_entries,
                                      [title |-> entry.title, link |-> entry.link,
                                       published |-> entry.published, idx |-> idx,
                                       onRemote |-> SnapshotHit(entry.title, RecentOf(remote))])
    /\ feed' = feed - 1
    /\ scanned' = scanned + 1
    /\ pc' = IF feed = 1 THEN "post" ELSE "scan"
    /\ UNCHANGED <<aside, cfg, recent_posts, remote, settled, recordedNow, snapFailed, cycle,
                   login>>

ScanEntry == ScanEntryIn(BOOLEAN, BOOLEAN)

\* time.sleep(5) at the end of the `try` of one pass: reached unless post_entry raised
InterItemDelay == 5
DelayAfter(returned) == IF returned THEN InterItemDelay ELSE 0

\* run(): one pass of `for entry in new_entries`.
\* Oks: the outcomes send_post may have; Raises: those of sqlite in save_post.
PostEntryIn(Oks, Raises) ==
    /\ pc = "post"
    /\ new_entries # <<>>
    /\ LET entry == Head(new_entries) IN
       \E image_url \in ImageUrls, ok1 \in Oks, ok2 \in Oks, saveRaises \in Raises :
       \E embed \in EmbedChoices(image_url) :
          LET p == post_entry(entry, embed, ok1, ok2)
              saving == p.returned /\ cfg.check_database
              saved == saving /\ ~saveRaises
          IN /\ ~ok2 => (~ok1 /\ RetryAfterFailure(embed))
             /\ saveRaises => saving
             /\ remote' = IF p.sent
                          THEN Append(remote, RemotePost(p.text, entry.title, entry.link))
                          ELSE remote
             /\ posts' = IF saved
                         THEN save_post(posts, Account, entry.link, entry.title,
                                        EntryDate(entry.published), p.uri, p.url)
                         ELSE posts
             /\ last' = [kind |-> "post", idx |-> entry.idx, title |-> entry.title,
                         link |-> entry.link,
                         plainFail |-> (embed = "none" /\ ~ok1),
                         attempts |-> p.attempts, sends |-> p.sends,
                         returned |-> p.returned,
                         sent |-> p.sent, saved |-> saved, saveRaised |-> saveRaises,
                         published |-> entry.published,
                         earlier |-> IF last.kind = "post"
                                     THEN last.earlier
                                          \cup (IF last.sent THEN {last.published} ELSE {})
                                     ELSE {},
                         first |-> (last.kind # "post"),
                         waited |-> IF last.kind = "post" THEN last.delay ELSE 0,
                         delay |-> DelayAfter(p.returned),
                         wrote |-> (posts' # posts),
                         onRemote |-> entry.onRemote,
                         again |-> \E k \in 1..Len(remote) : remote[k].link = entry.link]
             /\ recordedNow' = IF p.sent /\ saved THEN recordedNow \cup {Item(entry)}
                               ELSE recordedNow
    /\ new_entries' = Tail(new_entries)
    /\ UNCHANGED <<aside, cfg, pc, recent_posts, feed, scanned, settled, raisedIdx, snapFailed,
                   snapCalls,
                   cycle, login>>

PostEntry == PostEntryIn(BOOLEAN, BOOLEAN)

\* run(): time.sleep(self.interval) at the end of the cycle
Sleep ==
    /\ pc = "post"
    /\ new_entries = <<>>
    /\ pc' = "start"
    /\ settled' = settled \cup recordedNow
    /\ recordedNow' = {}
    /\ cycle' = cycle + 1
    /\ last' = NoLast
    /\ raisedIdx' = {}
    /\ scanned' = 0
    /\ snapFailed' = FALSE
    /\ snapCalls' = 0
    /\ recent_posts' = <<>>
    /\ UNCHANGED <<aside, cfg, feed, new_entries, posts, remote, login>>

Next == GetRecentPosts \/ ParseFeed \/ ScanEntry \/ PostEntry \/ Sleep

Spec == Init /\ [][Next]_vars

\* The worker while every create-post call and every ledger write succeeds.
NextNoFail ==
    GetRecentPosts \/ ParseFeed \/ ScanEntryIn(BOOLEAN, {FALSE})
    \/ PostEntryIn({TRUE}, {FALSE})
    \/ Sleep

SpecNoFail == Init /\ [][NextNoFail]_vars

(***************************************************************************)
(* The worker as run_bot_instance starts it: BotLogic(account_config)      *)
(* logs in, then run() loops.  run() calls                                 *)
(*   fetch_new_rss_entries(wrapper, min_post_date, url, max_entries=...)   *)
(* and fetch_new_rss_entries declares (is_posted_check, min_post_date,     *)
(* rss_feed_url): binding the call raises TypeError before the function's  *)
(* body runs, and run()'s outer handler logs it and sleeps.                *)
(***************************************************************************)
FetchParameters == {"is_posted_check", "min_post_date", "rss_feed_url"}
RunCallKeywords == {"max_entries"}
CallBinds == RunCallKeywords \subseteq FetchParameters

InitRun ==
    /\ cfg \in Flags
    /\ pc = "login"
    /\ login = LoginStart
    /\ compose = NoCompose
    /\ recent_posts = <<>>
    /\ feed = 0
    /\ scanned = 0
    /\ new_entries = <<>>
    /\ posts = {}
    /\ remote = <<>>
    /\ last = NoLast
    /\ settled = {}
    /\ recordedNow = {}
    /\ raisedIdx = {}
    /\ snapFailed = FALSE
    /\ snapCalls = 0
    /\ cycle = 0
    /\ publish = NoPublish
    /\ cold = NoCold
    /\ main = NoMain
    /\ ledger = NoLedger
    /\ mig = NoMig
    /\ store = NoStore
    /\ enrich = NoEnrich
    /\ parse = NoParse

\* a delay that stays as it is
NextDelay_fixed(delay) == delay

\* delay *= 2
NextDelay(delay) == delay * 2

\* every failure taken for a rate limit
IsRateLimit_any(outcome) == TRUE

\* "RateLimitExceeded" in str(e)
IsRateLimit(outcome) == outcome = "RateLimitExceeded"

\* _login_with_retries: one pass of `while retries < self.max_retries`
LoginAttempt ==
    /\ pc = "login"
    /\ login.retries < max_retries
    /\ \E outcome \in {"ok", "RateLimitExceeded", "other"} :
        IF outcome = "ok"
        THEN /\ pc' = "start"
             /\ login' = [login EXCEPT !.attempts = @ + 1, !.session = TRUE,
                                       !.outcome = outcome, !.rejected = FALSE]
        ELSE IF IsRateLimit(outcome)
        THEN /\ login' = [login EXCEPT !.retries = @ + 1, !.delay = NextDelay(@),
                                       !.slept = @ + login.delay, !.attempts = @ + 1,
                                       !.outcome = outcome]
             \* the loop ends at max_retries: raise Exception("Max retries exceeded...")
             /\ pc' = IF login.retries + 1 < max_retries THEN "login" ELSE "dead"
        ELSE /\ pc' = "dead"       \* raise e
             /\ login' = [login EXCEPT !.attempts = @ + 1, !.outcome = outcome]
    /\ UNCHANGED <<aside, cfg, recent_posts, feed, scanned, new_entries, posts, remote, last,
                   settled, recordedNow, raisedIdx, snapFailed, snapCalls, cycle>>

\* an exception of the cycle that leaves run()
OnCycleError_propagates == "dead"

\* run(): `except Exception as e:` of the loop's body takes every exception of the cycle
OnCycleError == "error"

\* run(): the call of fetch_new_rss_entries raises; except Exception: log
FetchCallRaises ==
    /\ pc = "fetch"
    /\ ~CallBinds
    /\ pc' = OnCycleError
    /\ UNCHANGED <<aside, cfg, recent_posts, feed, scanned, new_entries, posts, remote, last,
                   settled, recordedNow, raisedIdx, snapFailed, snapCalls, cycle, login>>

\* run(): in the outer handler, time.sleep(self.interval); the loop goes on
SleepAfterError ==
    /\ pc = "error"
    /\ pc' = "start"
    /\ snapFailed' = FALSE
    /\ snapCalls' = 0
    /\ recent_posts' = <<>>
    /\ UNCHANGED <<aside, cfg, feed, scanned, new_entries, posts, remote, last, settled,
                   recordedNow, raisedIdx, cycle, login>>

\* run(): recent_posts = self._get_recent_posts() while the service rejects the
\* session (expired or revoked): client.get_profile raises, _get_recent_posts logs it
\* and returns [].  Nothing in run() calls _login_with_retries or client.login.
GetRecentPostsRejected ==
    /\ pc = "start"
    /\ cfg.check_bluesky_backup
    /\ ~login.rejected
    /\ recent_posts' = OnRecentError
    /\ snapFailed' = TRUE
    /\ snapCalls' = snapCalls + 1
    /\ login' = [login EXCEPT !.rejected = TRUE]
    /\ pc' = "fetch"
    /\ UNCHANGED <<aside, cfg, feed, scanned, new_entries, posts, remote, last, settled,
                   recordedNow, raisedIdx, cycle>>

NextRun ==
    LoginAttempt \/ GetRecentPosts \/ GetRecentPostsRejected \/ FetchCallRaises
    \/ SleepAfterError

SpecRun == InitRun /\ [][NextRun]_vars

\* the worker's thread keeps being scheduled
FairSpecRun == SpecRun /\ WF_vars(NextRun)

(***************************************************************************)
(* post_entry's composing step applied to titles and links of given        *)
(* lengths under a post format.                                            *)
(***************************************************************************)
MaxTitleLen == 301   \* longest title composed
MaxLinkLen == 290    \* longest link composed

Chars(c, n) == [k \in 1..n |-> c]

TitleLens == {0, 1, 10, 280, 286, 287, 300, MaxTitleLen}
LinkLens == {1, 6, 20, 286, 287, MaxLinkLen}
LinkFirstFormat == <<"{link}", " ", "{title}">>
Formats == {DefaultFormat, LinkFirstFormat}

InitCompose ==
    /\ compose \in [state : {"input"}, fmt : Formats,
                    title : {Chars("t", n) : n \in TitleLens},
                    link : {Chars("l", n) : n \in LinkLens}]
    /\ cfg \in [check_database : {TRUE}, check_bluesky_backup : {TRUE},
                auto_sync_to_database : {TRUE}, include_images : {TRUE}]
    /\ pc = "compose"
    /\ login = LoginStart
    /\ recent_posts = <<>>
    /\ feed = 0
    /\ scanned = 0
    /\ new_entries = <<>>
    /\ posts = {}
    /\ remote = <<>>
    /\ last = NoLast
    /\ settled = {}
    /\ recordedNow = {}
    /\ raisedIdx = {}
    /\ snapFailed = FALSE
    /\ snapCalls = 0
    /\ cycle = 0
    /\ publish = NoPublish
    /\ cold = NoCold
    /\ main = NoMain
    /\ ledger = NoLedger
    /\ mig = NoMig
    /\ store = NoStore
    /\ enrich = NoEnrich
    /\ parse = NoParse

\* post_entry, lines 187-204
Compose ==
    /\ compose.state = "input"
    /\ compose' = [state |-> "composed", fmt |-> compose.fmt, title |-> compose.title,
                   link |-> compose.link,
                   text |-> formatted_text(compose.fmt, compose.title, compose.link)]
    /\ UNCHANGED <<worker, parse, enrich, store, mig, ledger, main, cold, publish>>

NextCompose == Compose

SpecCompose == InitCompose /\ [][NextCompose]_vars

(***************************************************************************)
(* The worker's variables while a function is applied on its own.          *)
(***************************************************************************)
WorkerIdle ==
    /\ cfg \in [check_database : {TRUE}, check_bluesky_backup : {TRUE},
                auto_sync_to_database : {TRUE}, include_images : {TRUE}]
    /\ pc = "idle"
    /\ login = LoginStart
    /\ recent_posts = <<>>
    /\ feed = 0
    /\ scanned = 0
    /\ new_entries = <<>>
    /\ posts = {}
    /\ remote = <<>>
    /\ last = NoLast
    /\ settled = {}
    /\ recordedNow = {}
    /\ raisedIdx = {}
    /\ snapFailed = FALSE
    /\ snapCalls = 0
    /\ cycle = 0

(***************************************************************************)
(* parse_facets (post_handler.py): hashtags, mentions and links of a text, *)
(* with UTF-8 byte offsets.  A text is a sequence of characters.           *)
(***************************************************************************)
MaxPieces == 4    \* pieces a parsed text is made of

\* str.encode('utf-8') of one character, for the characters of the model's texts
Utf8(c) ==
    CASE c = NL  -> <<10>>
      [] c = " " -> <<32>>
      [] c = "#" -> <<35>>
      [] c = "-" -> <<45>>
      [] c = "." -> <<46>>
      [] c = "/" -> <<47>>
      [] c = "1" -> <<49>>
      [] c = ":" -> <<58>>
      [] c = "@" -> <<64>>
      [] c = "a" -> <<97>>
      [] c = "h" -> <<104>>
      [] c = "p" -> <<112>>
      [] c = "s" -> <<115>>
      [] c = "t" -> <<116>>
      [] c = "é" -> <<195, 169>>
      [] c = "€" -> <<226, 130, 172>>

\* text.encode('utf-8')
Encode(text) == Flatten([k \in 1..Len(text) |-> Utf8(text[k])])

\* the regular expressions' character classes: \s, \d, \S, [a-zA-Z0-9.-]
IsSpace(c) == c \in {" ", NL}
IsDigit(c) == c \in {"0", "1", "2", "3", "4", "5", "6", "7", "8", "9"}
NonSpace(c) == ~IsSpace(c)
IsHandleChar(c) == c \in {"a", "h", "p", "s", "t", "."} \/ IsDigit(c) \/ c = "-"

\* membership in the class a greedy repetition runs over: \S or [a-zA-Z0-9.-]
InClass(c, class) == IF class = "handle" THEN IsHandleChar(c) ELSE NonSpace(c)

\* end of the longest run of characters of the class that starts at s (s - 1 if none)
RunEnd(text, s, class) ==
    CHOOSE e \in (s - 1)..Len(text) :
        /\ \A k \in s..e : InClass(text[k], class)
        /\ e = Len(text) \/ ~InClass(text[e + 1], class)

\* (?:^|\s) before position s
AtBoundary(text, s) == s = 1 \/ IsSpace(text[s - 1])

StartsWith(text, s, word) ==
    s + Len(word) - 1 <= Len(text) /\ SubSeq(text, s, s + Len(word) - 1) = word

\* matches of (?:^|\s)(#[^\d\s]\S*): positions of group 1
HashtagStarts(text) ==
    {s \in 1..Len(text) :
        /\ text[s] = "#"
        /\ AtBoundary(text, s)
        /\ s + 1 <= Len(text)
        /\ ~IsDigit(text[s + 1])
        /\ ~IsSpace(text[s + 1])}
HashtagEnd(text, s) == RunEnd(text, s + 2, "nonspace")

\* matches of (?:^|\s)(@[a-zA-Z0-9.-]+): positions of group 1
MentionStarts(text) ==
    {s \in 1..Len(text) :
        /\ text[s] = "@"
        /\ AtBoundary(text, s)
        /\ s + 1 <= Len(text)
        /\ IsHandleChar(text[s + 1])}
MentionEnd(text, s) == RunEnd(text, s + 1, "handle")

\* https?://[^\s]+ matches at s
UrlAt(text, s) ==
    \/ StartsWith(text, s, <<"h", "t", "t", "p", ":", "/", "/">>)
       /\ s + 7 <= Len(text) /\ NonSpace(text[s + 7])
    \/ StartsWith(text, s, <<"h", "t", "t", "p", "s", ":", "/", "/">>)
       /\ s + 8 <= Len(text) /\ NonSpace(text[s + 8])
\* re.finditer: leftmost matches that do not overlap; a match runs to the next space
UrlStarts(text) ==
    {s \in 1..Len(text) :
        /\ UrlAt(text, s)
        /\ ~\E r \in 1..(s - 1) : UrlAt(text, r) /\ \A k \in r..(s - 1) : NonSpace(text[k])}
UrlEnd(text, s) == RunEnd(text, s, "nonspace")

\* the elements of a set of numbers in increasing order (the order of re.finditer)
RECURSIVE Ascending(_)
Ascending(S) ==
    IF S = {} THEN <<>>
    ELSE LET m == CHOOSE x \in S : \A y \in S : x <= y
         IN <<m>> \o Ascending(S \ {m})

\* a byte offset computed from a character index counted in bytes as a character index
ByteOffset_chars(text, k) == k

\* len(text[:k].encode('utf-8'))
ByteOffset(text, k) == Len(Encode(SliceTo(text, k)))

\* one facets.append({...}); s, e: the match's first and last position (from 1)
Facet(text, s, e, type, value) ==
    [byteStart |-> ByteOffset(text, s - 1), byteEnd |-> ByteOffset(text, e),
     type |-> type, value |-> value]

FacetsOf(text) ==
    LET hs == Ascending(HashtagStarts(text))
        ms == Ascending(MentionStarts(text))
        us == Ascending(UrlStarts(text))
    IN [k \in 1..Len(hs) |->
            Facet(text, hs[k], HashtagEnd(text, hs[k]), "tag",
                  SubSeq(text, hs[k] + 1, HashtagEnd(text, hs[k])))]
       \o [k \in 1..Len(ms) |->
            Facet(text, ms[k], MentionEnd(text, ms[k]), "mention",
                  SubSeq(text, ms[k] + 1, MentionEnd(text, ms[k])))]
       \o [k \in 1..Len(us) |->
            Facet(text, us[k], UrlEnd(text, us[k]), "link",
                  SubSeq(text, us[k], UrlEnd(text, us[k])))]

\* return facets if facets else None
parse_facets(text) == [facets |-> FacetsOf(text), none |-> FacetsOf(text) = <<>>]

\* what the parsed texts are made of
Pieces ==
    { <<"#">>, <<"a">>, <<"1">>, <<" ">>, <<"€">>, <<"@">>,
      <<"h", "t", "t", "p", ":", "/", "/">>,
      <<"h", "t", "t", "p", "s", ":", "/", "/">> }
RECURSIVE SeqsUpTo(_, _)
SeqsUpTo(S, n) ==
    IF n = 0 THEN {<<>>}
    ELSE LET shorter == SeqsUpTo(S, n - 1)
         IN shorter \cup {Append(q, x) : q \in shorter, x \in S}
Texts == {Flatten(q) : q \in SeqsUpTo(Pieces, MaxPieces)}

InitFacets ==
    /\ parse \in [state : {"input"}, text : Texts]
    /\ compose = NoCompose
    /\ enrich = NoEnrich
    /\ store = NoStore
    /\ mig = NoMig
    /\ ledger = NoLedger
    /\ main = NoMain
    /\ cold = NoCold
    /\ publish = NoPublish
    /\ WorkerIdle

ParseFacets ==
    /\ parse.state = "input"
    /\ parse' = [state |-> "parsed", text |-> parse.text,
                 result |-> parse_facets(parse.text)]
    /\ UNCHANGED <<worker, compose, enrich, store, mig, ledger, main, cold, publish>>

NextFacets == ParseFacets

SpecFacets == InitFacets /\ [][NextFacets]_vars

(***************************************************************************)
(* Enrichment (PostHandler._fetch_link_card and the embed part of          *)
(* post_entry).  A page is what requests.get and BeautifulSoup give for    *)
(* the item's link: whether the fetch and parse succeeded, and the content *)
(* of the tags read (<<>> for a tag that is absent or has empty content).  *)
(***************************************************************************)
\* str.strip()
Strip(s) ==
    IF \A k \in 1..Len(s) : IsSpace(s[k]) THEN <<>>
    ELSE LET a == CHOOSE k \in 1..Len(s) : ~IsSpace(s[k]) /\ \A m \in 1..(k - 1) : IsSpace(s[m])
             b == CHOOSE k \in 1..Len(s) : ~IsSpace(s[k]) /\ \A m \in (k + 1)..Len(s) : IsSpace(s[m])
         IN SubSeq(s, a, b)

NoCard == [kind |-> "none"]

\* og:title, else the page's <title> stripped
CardTitle(page) == IF page.og_title # <<>> THEN page.og_title ELSE Strip(page.title)
\* og:description, else the meta description
CardDescription(page) ==
    IF page.og_description # <<>> THEN page.og_description ELSE page.description

\* a card only for a page that has a thumbnail
fetch_link_card_with_thumb(url, page, thumbOk) ==
    IF page.fetch = "ok" /\ page.og_image /\ thumbOk
    THEN [kind |-> "card", uri |-> url, title |-> CardTitle(page),
          description |-> CardDescription(page), thumb |-> "blob"]
    ELSE NoCard

\* _fetch_link_card; thumbOk: the thumbnail's download and upload succeed
fetch_link_card(url, page, thumbOk) ==
    IF page.fetch # "ok" THEN NoCard
    ELSE IF CardTitle(page) # <<>> \/ CardDescription(page) # <<>>
    THEN [kind |-> "card", uri |-> url, title |-> CardTitle(page),
          description |-> CardDescription(page),
          thumb |-> IF page.og_image /\ thumbOk THEN "blob" ELSE "none"]
    ELSE NoCard

\* an embed chosen without reading the flag
SelectEmbed_flag_ignored(include_images, card, image_url, image, uploadOk) ==
    IF card # NoCard THEN [kind |-> "card", imageTried |-> FALSE, cardTried |-> TRUE]
    ELSE IF image_url = "none" THEN [kind |-> "none", imageTried |-> FALSE, cardTried |-> TRUE]
    ELSE IF image = "ok" /\ uploadOk
    THEN [kind |-> "image", imageTried |-> TRUE, cardTried |-> TRUE]
    ELSE [kind |-> "none", imageTried |-> TRUE, cardTried |-> TRUE]

\* post_entry, the embed: include_images, the card, entry.image_url, the outcome of
\* download_and_compress_image ("ok", "none", "raises") and of upload_blob
SelectEmbed(include_images, card, image_url, image, uploadOk) ==
    IF ~include_images THEN [kind |-> "none", imageTried |-> FALSE, cardTried |-> FALSE]
    ELSE IF card # NoCard THEN [kind |-> "card", imageTried |-> FALSE, cardTried |-> TRUE]
    ELSE IF image_url = "none" THEN [kind |-> "none", imageTried |-> FALSE, cardTried |-> TRUE]
    ELSE IF image = "ok" /\ uploadOk
    THEN [kind |-> "image", imageTried |-> TRUE, cardTried |-> TRUE]
    ELSE [kind |-> "none", imageTried |-> TRUE, cardTried |-> TRUE]

Pages ==
    [fetch : {"ok", "error"},
     og_title : {<<>>, <<"T">>},
     title : {<<>>, <<" ">>, <<" ", "t", " ">>},
     og_description : {<<>>, <<"D">>},
     description : {<<>>, <<"d">>},
     og_image : BOOLEAN]

InitEnrich ==
    /\ enrich \in [state : {"input"}, include_images : BOOLEAN, page : Pages,
                   image_url : ImageUrls]
    /\ compose = NoCompose
    /\ parse = NoParse
    /\ store = NoStore
    /\ mig = NoMig
    /\ ledger = NoLedger
    /\ main = NoMain
    /\ cold = NoCold
    /\ publish = NoPublish
    /\ WorkerIdle

\* download_and_compress_image(image_url, max_size_kb=1000, ...)
MaxSizeKb == 1000
\* sizes in KB of the JPEG the image is saved as: at the limit, and above it
EncodedSizes == {MaxSizeKb, MaxSizeKb + 1}

\* output.seek(0); size_kb = output.tell() / 1024: the position read is that of the
\* rewound buffer, whatever was written
MeasuredSizeKb(encodedKb) == 0

\* download_and_compress_image.  download: "ok" (status 200 and an image PIL opens),
\* "none" (no 200 or RequestException in each of the attempts: returns None),
\* "raises" (any other error, which leaves the function)
download_and_compress_image(download, encodedKb) ==
    IF download # "ok" THEN download
    ELSE IF MeasuredSizeKb(encodedKb) <= MaxSizeKb THEN "ok"
    ELSE "none"

\* the item whose post is enriched
EnrichEntry == [title |-> <<"A">>, link |-> <<"x">>]

\* post_entry from `response = None` to the create-post calls: the embed, then the
\* send with its retry (ok1, ok2: the outcomes of the send_post calls)
Enrich ==
    /\ enrich.state = "input"
    /\ \E thumbOk \in BOOLEAN, download \in {"ok", "none", "raises"},
          encodedKb \in EncodedSizes, uploadOk \in BOOLEAN,
          ok1 \in BOOLEAN, ok2 \in BOOLEAN :
        LET card == IF enrich.include_images
                    THEN fetch_link_card(EnrichEntry.link, enrich.page, thumbOk) ELSE NoCard
            image == download_and_compress_image(download, encodedKb)
            e == SelectEmbed(enrich.include_images, card, enrich.image_url, image, uploadOk)
            p == post_entry(EnrichEntry, e.kind, ok1, ok2)
        IN /\ ~ok2 => (~ok1 /\ RetryAfterFailure(e.kind))
           /\ download # "ok" => encodedKb = MaxSizeKb
           /\ enrich' = [state |-> "enriched", include_images |-> enrich.include_images,
                         page |-> enrich.page, image_url |-> enrich.image_url,
                         card |-> card, embed |-> e.kind, imageTried |-> e.imageTried,
                         cardTried |-> e.cardTried, sends |-> p.sends,
                         returned |-> p.returned,
                         thumbOk |-> thumbOk, download |-> download,
                         encodedKb |-> encodedKb, uploadOk |-> uploadOk]
    /\ UNCHANGED <<worker, compose, parse, store, mig, ledger, main, cold, publish>>

NextEnrich == Enrich

SpecEnrich == InitEnrich /\ [][NextEnrich]_vars

(***************************************************************************)
(* The sqlite file and DatabaseHandler.__init__ (migrate_schema).  A store *)
(* holds the table posts and, while a migration is under way, posts_new.   *)
(* A table is its schema and its rows; the schemas are "older" (id, title, *)
(* published_date), "old" (the same with account_name) and "current".      *)
(* Rows of the legacy schemas carry their id: nothing else tells two of    *)
(* them apart.                                                             *)
(***************************************************************************)
MaxRows == 2     \* rows of a legacy store
MaxOpens == 2    \* times the store is opened

NoTable == [schema |-> "none", rows |-> {}]
Accounts == {Account, "second"}
Titles == {<<"A">>, <<"a", "b">>}

\* PRAGMA table_info(posts)
Columns(schema) ==
    CASE schema = "older" -> {"id", "title", "published_date"}
      [] schema = "old" -> {"id", "account_name", "title", "published_date"}
      [] schema = "current" -> {"id", "account_name", "rss_url", "title", "bluesky_uri",
                                "bluesky_url", "posted_at", "published_date"}
      [] OTHER -> {}

\* create_table: CREATE TABLE IF NOT EXISTS posts
create_table(db) ==
    IF db.posts.schema = "none"
    THEN [db EXCEPT !.posts = [schema |-> "current", rows |-> {}]]
    ELSE db

\* SELECT id, account_name | 'default', title, title, published_date FROM posts
CopiedRow(schema, r) ==
    Row(IF "account_name" \in Columns(schema) THEN r.account_name ELSE "default",
        r.title, r.title, r.published_date, NoUri, "none")

\* UNIQUE(account_name, rss_url) of posts_new fails for the copied rows
CopyViolatesUnique(table) ==
    \E r1, r2 \in table.rows :
        /\ r1 # r2
        /\ CopiedRow(table.schema, r1).account_name = CopiedRow(table.schema, r2).account_name
        /\ CopiedRow(table.schema, r1).rss_url = CopiedRow(table.schema, r2).rss_url

\* migrate_schema; CREATE TABLE posts_new runs outside a transaction and stays when the
\* INSERT that follows it raises
migrate_schema(db) ==
    IF db.posts.schema = "none" THEN [db |-> create_table(db), raised |-> FALSE]
    ELSE IF "rss_url" \in Columns(db.posts.schema) THEN [db |-> db, raised |-> FALSE]
    ELSE IF db.posts_new.schema # "none" THEN [db |-> db, raised |-> TRUE]
    ELSE IF CopyViolatesUnique(db.posts)
    THEN [db |-> [db EXCEPT !.posts_new = [schema |-> "current", rows |-> {}]],
          raised |-> TRUE]
    ELSE [db |-> [posts |-> [schema |-> "current",
                             rows |-> {CopiedRow(db.posts.schema, r) : r \in db.posts.rows}],
                  posts_new |-> NoTable],
          raised |-> FALSE]

LegacyRows(schema) ==
    [id : 1..MaxRows,
     account_name : IF schema = "old" THEN Accounts ELSE {"none"},
     title : Titles,
     published_date : {EntryDate(1)}]

LegacyStores(schema) ==
    {[posts |-> [schema |-> schema, rows |-> rs], posts_new |-> NoTable] :
        rs \in {x \in SUBSET LegacyRows(schema) : \A r1, r2 \in x : r1.id = r2.id => r1 = r2}}

\* stores a handler can be opened on: none yet, a legacy one whose rows have distinct
\* ids, or a current one
Stores ==
    {[posts |-> NoTable, posts_new |-> NoTable]}
    \cup LegacyStores("older") \cup LegacyStores("old")
    \cup {[posts |-> [schema |-> "current", rows |-> rs], posts_new |-> NoTable] :
            rs \in SUBSET {Row(Account, t, t, EntryDate(1), NoUri, "none") : t \in Titles}}

InitMigrate ==
    /\ store \in Stores
    /\ mig = [state |-> "closed", opens |-> 0, legacy |-> store.posts, first |-> store,
              raised |-> FALSE]
    /\ compose = NoCompose
    /\ parse = NoParse
    /\ enrich = NoEnrich
    /\ ledger = NoLedger
    /\ main = NoMain
    /\ cold = NoCold
    /\ publish = NoPublish
    /\ WorkerIdle

\* DatabaseHandler.__init__: sqlite3.connect, self.migrate_schema()
OpenStore ==
    /\ mig.state = "closed"
    /\ mig.opens < MaxOpens
    /\ LET m == migrate_schema(store)
       IN /\ store' = m.db
          /\ mig' = [mig EXCEPT !.opens = @ + 1,
                                !.raised = @ \/ m.raised,
                                !.first = IF mig.opens = 0 THEN m.db ELSE @]
    /\ UNCHANGED <<worker, compose, parse, enrich, ledger, main, cold, publish>>

NextMigrate == OpenStore

SpecMigrate == InitMigrate /\ [][NextMigrate]_vars

(***************************************************************************)
(* The store shared by the account workers.  Every worker opens its own    *)
(* DatabaseHandler on the one posts.db (DB_PATH) and then calls is_posted  *)
(* and save_post on it; a statement of one connection runs as a whole      *)
(* between the statements of another.  ledger.last keeps the latest call:  *)
(* its account, its arguments, the rows before it and what it returned.    *)
(***************************************************************************)
MaxOps == 2      \* is_posted and save_post calls made on the store

Links == {<<"x">>, <<>>}
LedgerItems == [title : Titles, link : Links]
NoCall == [op |-> "none"]

InitLedger ==
    /\ store \in Stores
    /\ ledger = [state |-> "shared", open |-> {}, ops |-> 0, last |-> NoCall]
    /\ compose = NoCompose
    /\ parse = NoParse
    /\ enrich = NoEnrich
    /\ mig = NoMig
    /\ main = NoMain
    /\ cold = NoCold
    /\ publish = NoPublish
    /\ WorkerIdle

\* BotLogic.__init__: self.db_handler = DatabaseHandler(account_name=account_config.name)
LedgerOpen ==
    \E a \in Accounts \ ledger.open :
        LET m == migrate_schema(store)
        IN /\ store' = m.db
           /\ ledger' = [ledger EXCEPT !.open = IF m.raised THEN @ ELSE @ \cup {a},
                                       !.last = [op |-> "open", account |-> a,
                                                 pre |-> store.posts,
                                                 raised |-> m.raised]]
           /\ UNCHANGED <<worker, compose, parse, enrich, mig, main, cold, publish>>

\* db_handler.is_posted(rss_url=rss_url, title=title) of the wrapper
LedgerIsPosted ==
    \E a \in ledger.open, item \in LedgerItems :
        /\ ledger.ops < MaxOps
        /\ ledger' = [ledger EXCEPT !.ops = @ + 1,
                                    !.last = [op |-> "is_posted", account |-> a,
                                              title |-> item.title, link |-> item.link,
                                              pre |-> store.posts.rows,
                                              result |-> is_posted(store.posts.rows, a,
                                                                   item.link, item.title)]]
        /\ UNCHANGED <<worker, compose, parse, enrich, mig, store, main, cold, publish>>

\* db_handler.save_post of run() after a publish: rss_url=entry.link, the post's uri
LedgerRecord ==
    \E a \in ledger.open, item \in LedgerItems :
        /\ ledger.ops < MaxOps
        /\ store' = [store EXCEPT !.posts.rows =
                        save_post(@, a, item.link, item.title, EntryDate(1), 1, "url")]
        /\ ledger' = [ledger EXCEPT !.ops = @ + 1,
                                    !.last = [op |-> "record", account |-> a,
                                              title |-> item.title, link |-> item.link,
                                              key |-> item.link,
                                              pre |-> store.posts.rows]]
        /\ UNCHANGED <<worker, compose, parse, enrich, mig, main, cold, publish>>

\* db_handler.save_post of the wrapper's backfill: rss_url=rss_url or title, no uri
LedgerBackfill ==
    \E a \in ledger.open, item \in LedgerItems :
        /\ ledger.ops < MaxOps
        /\ store' = [store EXCEPT !.posts.rows =
                        save_post(@, a, OrTitle(item.link, item.title), item.title,
                                  Now, NoUri, "none")]
        /\ ledger' = [ledger EXCEPT !.ops = @ + 1,
                                    !.last = [op |-> "backfill", account |-> a,
                                              title |-> item.title, link |-> item.link,
                                              key |-> OrTitle(item.link, item.title),
                                              pre |-> store.posts.rows]]
        /\ UNCHANGED <<worker, compose, parse, enrich, mig, main, cold, publish>>

NextLedger == LedgerOpen \/ LedgerIsPosted \/ LedgerRecord \/ LedgerBackfill

SpecLedger == InitLedger /\ [][NextLedger]_vars

(***************************************************************************)
(* main(): one thread per configured account, each running                 *)
(* run_bot_instance (BotLogic(account), then bot.run() inside one          *)
(* try/except), and, with several accounts, main's loop restarting the     *)
(* threads found dead.  With one account run_bot_instance runs in the main *)
(* thread and nothing restarts it.  A thread is where its worker stands    *)
(* ("login", "loop", "sleep", "dead"; "absent" if not configured), the     *)
(* rate-limited logins so far, the cycles and the publishes made, and what *)
(* its feed offers ("new": an item not yet posted; "bozo": unparseable).   *)
(***************************************************************************)
MaxRestarts == 1   \* restarts made by main's loop

NoThread == [pc |-> "absent", retries |-> 0, cycle |-> 0, published |-> 0, feed |-> "none"]
Thread(offers) == [pc |-> "login", retries |-> 0, cycle |-> 0, published |-> 0, feed |-> offers]

InitMain ==
    /\ \E accounts \in {{Account}, Accounts} :
       \E feeds \in [Accounts -> {"new", "bozo"}] :
          main = [state |-> "running", accounts |-> accounts, restarts |-> 0,
                  threads |-> [a \in Accounts |->
                                 IF a \in accounts THEN Thread(feeds[a]) ELSE NoThread]]
    /\ compose = NoCompose
    /\ parse = NoParse
    /\ enrich = NoEnrich
    /\ store = NoStore
    /\ mig = NoMig
    /\ ledger = NoLedger
    /\ cold = NoCold
    /\ publish = NoPublish
    /\ WorkerIdle

\* BotLogic.__init__ in run_bot_instance: one pass of _login_with_retries; what it
\* raises is caught by run_bot_instance, whose thread then ends
ThreadLogin(a) ==
    /\ main.state = "running"
    /\ main.threads[a].pc = "login"
    /\ \E outcome \in {"ok", "RateLimitExceeded", "other"} :
          main' = [main EXCEPT !.threads[a] =
                     IF outcome = "ok" THEN [@ EXCEPT !.pc = "loop"]
                     ELSE IF IsRateLimit(outcome)
                     THEN [@ EXCEPT !.retries = @ + 1,
                                    !.pc = IF main.threads[a].retries + 1 < max_retries
                                           THEN "login" ELSE "dead"]
                     ELSE [@ EXCEPT !.pc = "dead"]]
    /\ UNCHANGED <<worker, compose, parse, enrich, store, mig, ledger, cold, publish>>

\* one pass of run()'s `while True`: the call of fetch_new_rss_entries raises when its
\* keywords do not bind; a bozo feed returns []; the entries returned are posted; in
\* every case the pass ends in time.sleep(self.interval).  cycle and published count
\* up to MaxCycles and stay there.
ThreadCycle(a) ==
    /\ main.state = "running"
    /\ main.threads[a].pc = "loop"
    /\ main' = [main EXCEPT !.threads[a] =
                  [@ EXCEPT !.pc = "sleep",
                            !.cycle = Min(@ + 1, MaxCycles),
                            !.published = IF CallBinds /\ main.threads[a].feed = "new"
                                          THEN Min(@ + 1, MaxCycles) ELSE @]]
    /\ UNCHANGED <<worker, compose, parse, enrich, store, mig, ledger, cold, publish>>

\* time.sleep(self.interval) returns: the next pass of `while True`
ThreadWake(a) ==
    /\ main.state = "running"
    /\ main.threads[a].pc = "sleep"
    /\ main' = [main EXCEPT !.threads[a].pc = "loop"]
    /\ UNCHANGED <<worker, compose, parse, enrich, store, mig, ledger, cold, publish>>

\* main(): after time.sleep(60), every thread that is not alive is replaced; restarts
\* counts up to MaxRestarts and stays there
Supervise ==
    /\ main.state = "running"
    /\ Cardinality(main.accounts) > 1
    /\ \E a \in Accounts : main.threads[a].pc = "dead"
    /\ main' = [main EXCEPT !.restarts = Min(@ + 1, MaxRestarts),
                            !.threads = [a \in Accounts |->
                                           IF main.threads[a].pc = "dead"
                                           THEN [main.threads[a] EXCEPT !.pc = "login",
                                                                        !.retries = 0]
                                           ELSE main.threads[a]]]
    /\ UNCHANGED <<worker, compose, parse, enrich, store, mig, ledger, cold, publish>>

\* main() with one account: run_bot_instance(accounts[0]) has caught what ended the
\* worker and returns; main() returns after it and the process ends
MainReturns ==
    /\ main.state = "running"
    /\ Cardinality(main.accounts) = 1
    /\ \E a \in main.accounts : main.threads[a].pc = "dead"
    /\ main' = [main EXCEPT !.state = "exited"]
    /\ UNCHANGED <<worker, compose, parse, enrich, store, mig, ledger, cold, publish>>

NextMain ==
    \/ \E a \in Accounts : ThreadLogin(a) \/ ThreadCycle(a) \/ ThreadWake(a)
    \/ Supervise
    \/ MainReturns

SpecMain == InitMain /\ [][NextMain]_vars

\* every thread and main's loop keep being scheduled
FairSpecMain ==
    /\ SpecMain
    /\ \A a \in Accounts :
          WF_vars(ThreadLogin(a)) /\ WF_vars(ThreadCycle(a)) /\ WF_vars(ThreadWake(a))
    /\ WF_vars(Supervise)
    /\ WF_vars(MainReturns)

(***************************************************************************)
(* DatabaseHandler statement by statement, for a process killed between    *)
(* two statements and for two handlers opened on one store.  store is what *)
(* the file holds, committed; cold.work is the store as the connection of  *)
(* cold.tx sees it inside its open transaction.  sqlite3 begins a          *)
(* transaction before an INSERT and not before CREATE TABLE, which is      *)
(* committed as it runs; DROP and ALTER run inside the transaction the     *)
(* INSERT began; a connection that ends without commit is rolled back.     *)
(* The CREATE INDEX statements are left out: no statement depends on them. *)
(***************************************************************************)
MaxKills == 2    \* kills of the process

Down == [state |-> "down", stmt |-> 0, columns |-> "none"]

\* the rows a store holds, as rows of the current schema
Entries(table) ==
    IF table.schema = "current" THEN table.rows
    ELSE {CopiedRow(table.schema, r) : r \in table.rows}

ColdStart(handlers) ==
    /\ store \in Stores
    /\ cold = [handlers |-> handlers, h |-> [a \in handlers |-> Down], tx |-> "none",
               work |-> store, kills |-> 0, saves |-> 0, legacy |-> store.posts,
               kept |-> Entries(store.posts)]
    /\ compose = NoCompose
    /\ parse = NoParse
    /\ enrich = NoEnrich
    /\ mig = NoMig
    /\ ledger = NoLedger
    /\ main = NoMain
    /\ publish = NoPublish
    /\ WorkerIdle

\* DatabaseHandler.__init__ up to `if needs_migration`: connect, SELECT name FROM
\* sqlite_master, create_table() for a fresh store, PRAGMA table_info(posts)
ColdOpen(a) ==
    /\ cold.h[a].state \in {"down", "failed"}
    /\ IF store.posts.schema = "none"
       THEN /\ cold.tx = "none"
            /\ store' = create_table(store)
            /\ cold' = [cold EXCEPT !.h[a] = [Down EXCEPT !.state = "open"],
                                    !.work = create_table(store)]
       ELSE /\ store' = store
            /\ cold' = [cold EXCEPT !.h[a] =
                          IF "rss_url" \in Columns(store.posts.schema)
                          THEN [Down EXCEPT !.state = "open"]
                          ELSE [state |-> "migrating", stmt |-> 1,
                                columns |-> store.posts.schema]]
    /\ UNCHANGED <<worker, compose, parse, enrich, mig, ledger, main, publish>>

\* migrate_schema: the next statement of the `if needs_migration` branch
\*   1 CREATE TABLE posts_new   2 INSERT INTO posts_new ... SELECT ... FROM posts
\*   3 DROP TABLE posts         4 ALTER TABLE posts_new RENAME TO posts
\*   5 self.conn.commit()
\* A statement that raises ends __init__; the INSERT waits for another connection's
\* transaction to end.
MigrateStatement(a) ==
    /\ cold.h[a].state = "migrating"
    /\ LET k == cold.h[a].stmt
           source == [schema |-> cold.h[a].columns, rows |-> store.posts.rows]
       IN CASE k = 1 ->
                 IF store.posts_new.schema # "none"
                 THEN /\ cold' = [cold EXCEPT !.h[a].state = "failed"]
                      /\ store' = store
                 ELSE /\ store' = [store EXCEPT !.posts_new =
                                      [schema |-> "current", rows |-> {}]]
                      /\ cold' = [cold EXCEPT !.h[a].stmt = 2,
                                              !.work = IF cold.tx = "none" THEN store'
                                                       ELSE @]
            [] k = 2 ->
                 /\ cold.tx = "none"
                 /\ store' = store
                 /\ IF CopyViolatesUnique(source)
                    THEN cold' = [cold EXCEPT !.h[a].state = "failed"]
                    ELSE cold' = [cold EXCEPT
                            !.h[a].stmt = 3,
                            !.tx = a,
                            !.work = [store EXCEPT !.posts_new.rows =
                                        {CopiedRow(source.schema, r) : r \in source.rows}]]
            [] k = 3 ->
                 /\ store' = store
                 /\ cold' = [cold EXCEPT !.h[a].stmt = 4, !.work.posts = NoTable]
            [] k = 4 ->
                 /\ store' = store
                 /\ cold' = [cold EXCEPT !.h[a].stmt = 5,
                                         !.work = [posts |-> cold.work.posts_new,
                                                   posts_new |-> NoTable]]
            [] OTHER ->
                 /\ store' = cold.work
                 /\ cold' = [cold EXCEPT !.h[a] = [Down EXCEPT !.state = "open"],
                                         !.tx = "none"]
    /\ UNCHANGED <<worker, compose, parse, enrich, mig, ledger, main, publish>>

\* save_post: the INSERT OR IGNORE inside `with self.conn`, which begins a transaction
SaveStatement(a) ==
    /\ cold.h[a].state = "open"
    /\ cold.saves < MaxOps
    /\ cold.tx = "none"
    /\ \E item \in LedgerItems :
          cold' = [cold EXCEPT
                     !.h[a].state = "saving",
                     !.tx = a,
                     !.work = [store EXCEPT !.posts.rows =
                                 save_post(@, a, item.link, item.title, EntryDate(1),
                                           1, "url")]]
    /\ UNCHANGED <<worker, compose, parse, enrich, mig, ledger, main, store, publish>>

\* save_post: leaving `with self.conn` commits
SaveCommit(a) ==
    /\ cold.h[a].state = "saving"
    /\ store' = cold.work
    /\ cold' = [cold EXCEPT !.h[a].state = "open", !.tx = "none", !.saves = @ + 1,
                            !.kept = @ \cup cold.work.posts.rows]
    /\ UNCHANGED <<worker, compose, parse, enrich, mig, ledger, main, publish>>

\* the process is killed: its connection ends, its open transaction is rolled back
Kill(a) ==
    /\ cold.h[a].state \in {"migrating", "open", "saving"}
    /\ cold.kills < MaxKills
    /\ cold' = [cold EXCEPT !.h[a] = Down,
                            !.kills = @ + 1,
                            !.tx = IF @ = a THEN "none" ELSE @,
                            !.work = IF cold.tx = a THEN store ELSE @]
    /\ UNCHANGED <<worker, compose, parse, enrich, mig, ledger, main, store, publish>>

\* one worker, killed and started again
InitCold == ColdStart({Account})

NextCold ==
    \E a \in cold.handlers :
        ColdOpen(a) \/ MigrateStatement(a) \/ SaveStatement(a) \/ SaveCommit(a) \/ Kill(a)

SpecCold == InitCold /\ [][NextCold]_vars

\* the workers of main()'s threads, each opening its handler on the one store
InitRace == ColdStart(Accounts)

NextRace == \E a \in cold.handlers : ColdOpen(a) \/ MigrateStatement(a)

SpecRace == InitRace /\ [][NextRace]_vars

(***************************************************************************)
(* run()'s body for one entry (post_entry, then save_post) with the post's *)
(* identifiers spelled out.  An AT URI is its parts as split('/') gives    *)
(* them: at://did/collection/rkey is <<"at:", "", did, collection, rkey>>; *)
(* a uri or a url that is None is the empty sequence.                      *)
(***************************************************************************)
None == <<>>
PostUri == <<"at:", "", "did:plc:x", "app.bsky.feed.post", "rkey">>
Handle == "bot.bsky.social"

\* a permalink left unset when the handle does not resolve
bluesky_url_without_fallback(at_uri, handleOk) ==
    IF at_uri = None \/ ~handleOk THEN None
    ELSE <<"https://bsky.app/profile", Handle, "post", at_uri[5]>>

\* post_entry after the send: parts = at_uri.split('/'); the handle of
\* client.get_profile(did), or the did when that call raises
bluesky_url(at_uri, handleOk) ==
    IF at_uri = None THEN None
    ELSE IF Len(at_uri) >= 5
    THEN <<"https://bsky.app/profile", IF handleOk THEN Handle ELSE at_uri[3], "post",
           at_uri[5]>>
    ELSE None

InitPublish ==
    /\ publish \in [state : {"input"}, check_database : BOOLEAN, entry : FeedEntries,
                    embed : {"none", "card", "image"}]
    /\ compose = NoCompose
    /\ parse = NoParse
    /\ enrich = NoEnrich
    /\ store = NoStore
    /\ mig = NoMig
    /\ ledger = NoLedger
    /\ main = NoMain
    /\ cold = NoCold
    /\ WorkerIdle

\* run(): post_result = self.post_handler.post_entry(entry), then save_post with
\* post_result's uri and url when check_database is on.  ok1, ok2: the send_post
\* calls; handleOk: client.get_profile(did); saveRaises: save_post raises
PublishEntry ==
    /\ publish.state = "input"
    /\ \E ok1 \in BOOLEAN, ok2 \in BOOLEAN, handleOk \in BOOLEAN, saveRaises \in BOOLEAN :
        LET p == post_entry(publish.entry, publish.embed, ok1, ok2)
            at_uri == IF p.sent THEN PostUri ELSE None
            url == bluesky_url(at_uri, handleOk)
            saving == p.returned /\ publish.check_database
        IN /\ ~ok2 => (~ok1 /\ RetryAfterFailure(publish.embed))
           /\ ~handleOk => p.sent
           /\ saveRaises => saving
           /\ publish' = [state |-> "done", check_database |-> publish.check_database,
                          entry |-> publish.entry, embed |-> publish.embed,
                          sent |-> p.sent, returned |-> p.returned,
                          handleOk |-> handleOk, saveRaised |-> saveRaises,
                          uri |-> IF p.returned THEN at_uri ELSE None,
                          url |-> IF p.returned THEN url ELSE None,
                          table |-> IF saving /\ ~saveRaises
                                    THEN save_post({}, Account, publish.entry.link,
                                                   publish.entry.title,
                                                   EntryDate(publish.entry.published),
                                                   at_uri, url)
                                    ELSE {}]
    /\ UNCHANGED <<worker, compose, parse, enrich, store, mig, ledger, main, cold>>

NextPublish == PublishEntry

SpecPublish == InitPublish /\ [][NextPublish]_vars

(***************************************************************************)
(* The claims.  InLedger, TitleInSnapshot, PostsFor and LastItem are the    *)
(* claims' vocabulary, stated apart from the operators of the code.        *)
(***************************************************************************)
\* a row of this account matching the item by link or by title
InLedger(table, link, title) ==
    \E row \in table :
        row.account_name = Account /\ (row.rss_url = link \/ row.title = title)

\* the title is a case-insensitive substring of some entry of the snapshot
TitleInSnapshot(title, snapshot) ==
    \E k \in DOMAIN snapshot : Contains(Lower(title), Lower(snapshot[k]))

PostsFor(link) == Cardinality({k \in DOMAIN remote : remote[k].link = link})

LastItem == [title |-> last.title, link |-> last.link]

\* C1: with the ledger enabled, while every publish and every ledger write
\* succeeds, at most one remote post is ever created per canonical link, also
\* when one feed snapshot lists the link more than once.
C1_OnePostPerLink ==
    cfg.check_database => \A e \in FeedEntries : PostsFor(e.link) <= 1

\* C2: a ledger entry is written only after a create-post call for the item
\* succeeded, or by the backfill after a snapshot match; none is written for an
\* item whose create-post attempts all failed.
C2_EntriesHaveProvenance ==
    /\ (last.kind = "post" /\ last.wrote) => last.sent
    /\ (last.kind = "check" /\ posts # last.pre) => last.hit = "bluesky"

\* C3: when create-post fails for an item without enrichment, post_entry does not
\* return normally, no ledger entry is written and no second attempt is made.
C3_PlainFailureIsReported ==
    (last.kind = "post" /\ last.plainFail) =>
        (~last.returned /\ ~last.wrote /\ last.attempts = 1)

\* C4: an item published and recorded in one cycle is a duplicate in every later
\* cycle, whatever the snapshot holds, and is not published again.
C4_RoundTrip ==
    /\ (last.kind = "check" /\ LastItem \in settled) => last.result
    /\ \A k \in DOMAIN new_entries : Item(new_entries[k]) \notin settled
    /\ last.kind = "post" => LastItem \notin settled

C4_Witness ==
    /\ last.kind = "check"
    /\ LastItem \in settled
    /\ last.result
    /\ ~last.raised
    /\ recent_posts = <<>>

\* C5: once the worker is in its loop, with the feed offering a new item and
\* create-post and the ledger write succeeding when called, an item is eventually
\* published (and recorded, the ledger being enabled).
C5_EventuallyPublished ==
    (pc = "start") ~> (remote # <<>> /\ (cfg.check_database => posts # {}))

\* C6: for an item whose link or title is in the ledger under this account, the
\* duplicate check returns true and makes no remote call.
C6_LedgerHit ==
    (last.kind = "check" /\ InLedger(last.pre, last.link, last.title)) =>
        (last.result /\ last.calls = 0)

C6_Witness ==
    /\ last.kind = "check"
    /\ ~last.raised
    /\ \E row \in last.pre : row.account_name = Account /\ row.title = last.title
    /\ \A row \in last.pre : row.rss_url # last.link
    /\ last.result

\* C7 as claimed: with the secondary signal enabled, an item whose title is in the
\* snapshot is a duplicate, and with auto-backfill enabled a ledger entry for it
\* exists right after the check.
C7_SnapshotHitBackfills ==
    (last.kind = "check" /\ cfg.check_bluesky_backup
        /\ TitleInSnapshot(last.title, recent_posts)) =>
        /\ last.result
        /\ cfg.auto_sync_to_database => InLedger(posts, last.link, last.title)

\* C7 as amended: ... and with auto-backfill and the ledger both enabled, and
\* neither the ledger lookup nor the backfill write raising, a ledger entry
\* matching the item by link or title exists right after the check.
C7_SnapshotHitBackfillsWhenLedgerOn ==
    (last.kind = "check" /\ cfg.check_bluesky_backup
        /\ TitleInSnapshot(last.title, recent_posts)) =>
        /\ last.result
        /\ (cfg.auto_sync_to_database /\ cfg.check_database
              /\ ~last.raised /\ ~last.saveRaised)
           => InLedger(posts, last.link, last.title)

C7_Witness ==
    /\ last.kind = "check"
    /\ last.hit = "bluesky"
    /\ cfg.auto_sync_to_database
    /\ ~InLedger(last.pre, last.link, last.title)
    /\ InLedger(posts, last.link, last.title)

\* C8: when the ledger lookup raises inside the duplicate check, the check
\* returns true, the ledger is unchanged, and the candidate is not published in
\* that cycle.
C8_FailClosedLookup ==
    /\ (last.kind = "check" /\ last.raised) => (last.result /\ posts = last.pre)
    /\ \A k \in DOMAIN new_entries : new_entries[k].idx \notin raisedIdx
    /\ last.kind = "post" => last.idx \notin raisedIdx

C8_Witness ==
    /\ last.kind = "check"
    /\ last.raised
    /\ last.result
    /\ last.pre # {}
    /\ new_entries # <<>>

\* C9: when the recent-activity fetch fails at the start of a cycle, no item that
\* only the secondary signal would have recognised is published in that cycle.
C9_SnapshotFetchFailClosed ==
    (cfg.check_bluesky_backup /\ snapFailed /\ last.kind = "post" /\ last.sent) => ~last.onRemote

\* C10: the composed text has at most 300 characters and holds the whole link.
C10_ComposedWithinLimit ==
    compose.state = "composed" =>
        (Len(compose.text) <= CharLimit /\ Contains(compose.link, compose.text))

\* the characters a facet's feature stands for in the text: "#tag", "@handle", the url
FacetToken(f) ==
    IF f.type = "tag" THEN <<"#">> \o f.value
    ELSE IF f.type = "mention" THEN <<"@">> \o f.value
    ELSE f.value

\* C11: each facet of parse_facets has byteStart equal to the number of UTF-8
\* bytes of the text before its token and byteEnd equal to byteStart plus the
\* token's UTF-8 length, so the bytes in [byteStart, byteEnd) are the token's.
C11_FacetsAreByteOffsets ==
    parse.state = "parsed" =>
        \A i \in DOMAIN parse.result.facets :
            LET f == parse.result.facets[i]
                token == FacetToken(f)
            IN /\ \E p \in 0..Len(parse.text) :
                    /\ StartsWith(parse.text, p + 1, token)
                    /\ f.byteStart = Len(Encode(SubSeq(parse.text, 1, p)))
               /\ f.byteEnd = f.byteStart + Len(Encode(token))
               /\ SubSeq(Encode(parse.text), f.byteStart + 1, f.byteEnd) = Encode(token)

C11_Witness ==
    /\ parse.state = "parsed"
    /\ parse.text = <<"€", " ", "#", "a">>
    /\ parse.result.facets = <<[byteStart |-> 4, byteEnd |-> 6, type |-> "tag", value |-> <<"a">>]>>

\* the page fetch yields a non-empty title or description
PageHasText(page) ==
    /\ page.fetch = "ok"
    /\ \/ page.og_title # <<>>
       \/ \E k \in DOMAIN page.title : ~IsSpace(page.title[k])
       \/ page.og_description # <<>>
       \/ page.description # <<>>

\* C12: whenever the page fetch yields a non-empty title or description the embed
\* is a link card (without thumbnail when the page has no image) and the image
\* variant is not attempted, even with a fallback image URL; the image variant
\* is attempted only when no card was produced.
C12_CardBeforeImage ==
    enrich.state = "enriched" =>
        /\ (enrich.include_images /\ PageHasText(enrich.page)) =>
             /\ enrich.embed = "card"
             /\ enrich.card.kind = "card"
             /\ ~enrich.page.og_image => enrich.card.thumb = "none"
             /\ ~enrich.imageTried
        /\ enrich.imageTried => enrich.card = NoCard
        /\ enrich.embed = "image" => enrich.card = NoCard

C12_Witness ==
    /\ enrich.state = "enriched"
    /\ enrich.include_images
    /\ enrich.page.fetch = "ok"
    /\ enrich.page.og_title = <<"T">>
    /\ ~enrich.page.og_image
    /\ enrich.image_url = "img"
    /\ enrich.embed = "card"
    /\ enrich.card.thumb = "none"

RECURSIVE Pow2(_)
Pow2(n) == IF n = 0 THEN 1 ELSE 2 * Pow2(n - 1)

\* C13: when the first k login attempts are rate-limited (k below the ceiling) and
\* attempt k+1 succeeds, login returns after exactly k+1 attempts and a total
\* sleep of initial_delay * (2^k - 1), the delay doubling after each of them.
C13_LoginBackoff ==
    login.session =>
        /\ login.retries < max_retries
        /\ login.attempts = login.retries + 1
        /\ login.slept = initial_delay * (Pow2(login.retries) - 1)
        /\ login.delay = initial_delay * Pow2(login.retries)

C13_Witness ==
    /\ pc = "start"
    /\ login.session
    /\ login.retries = 2
    /\ login.attempts = 3
    /\ login.slept = initial_delay + 2 * initial_delay

\* C14: a login failure that is not a rate limit aborts login at once, with no
\* sleep and no further attempt; when every attempt is rate-limited login makes
\* exactly max_retries attempts and fails; the worker is in its polling loop
\* only with an authenticated session.
C14_LoginFailureClasses ==
    /\ login.outcome = "other" =>
          /\ pc = "dead"
          /\ ~login.session
          /\ login.attempts = login.retries + 1
          /\ login.slept = initial_delay * (Pow2(login.retries) - 1)
    /\ login.attempts <= max_retries
    /\ (pc = "dead" /\ login.outcome = "RateLimitExceeded") =>
          (login.attempts = max_retries /\ login.retries = max_retries /\ ~login.session)
    /\ pc \in {"start", "fetch", "error"} => login.session

C14_Witness ==
    /\ pc = "dead"
    /\ login.outcome = "other"
    /\ login.retries = 1
    /\ login.attempts = 2

\* C15: for every legacy store, rows sharing a title included, the migration
\* completes and yields the current schema with the same number of rows, each old
\* row mapped to a row whose link is its title; a second run changes nothing.
C15_MigrationKeepsRows ==
    (mig.state = "closed" /\ mig.opens >= 1) =>
        /\ ~mig.raised
        /\ store.posts.schema = "current"
        /\ mig.legacy.schema \in {"older", "old"} =>
              /\ Cardinality(store.posts.rows) = Cardinality(mig.legacy.rows)
              /\ \A r \in mig.legacy.rows :
                    \E row \in store.posts.rows : row.rss_url = r.title /\ row.title = r.title
        /\ mig.opens >= 2 => store = mig.first

\* the row of the table stored under (account, key), if any
HasKey(table, account, key) ==
    \E row \in table : row.account_name = account /\ row.rss_url = key

\* C16: in the store shared by the workers, after any sequence of migrations,
\* publish recordings and backfills, no two rows of the posts table share
\* (account_name, rss_url), and a recording or a backfill whose (account, key) is
\* already stored leaves the table as it was.
C16_UniqueKeys ==
    ledger.state = "shared" =>
        /\ store.posts.schema = "current" =>
              \A r1, r2 \in store.posts.rows :
                  (r1.account_name = r2.account_name /\ r1.rss_url = r2.rss_url) => r1 = r2
        /\ (/\ ledger.last.op \in {"record", "backfill"}
            /\ HasKey(ledger.last.pre, ledger.last.account, ledger.last.key))
           => store.posts.rows = ledger.last.pre

\* a backfill or a recording under a stored key, the stored row having another title
C16_Witness ==
    /\ ledger.state = "shared"
    /\ ledger.last.op \in {"record", "backfill"}
    /\ \E row \in ledger.last.pre :
          /\ row.account_name = ledger.last.account
          /\ row.rss_url = ledger.last.key
          /\ row.title # ledger.last.title


\* C17: while the worker runs, no step removes a ledger row or changes a field
\* of one: every row stored before a step is stored, unchanged, after it; so a
\* save under a key already present leaves the stored row as it was.
C17_AppendOnly == [][posts \subseteq posts']_vars

\* a publish recorded under a link already stored with another title: nothing written
C17_Witness ==
    /\ last.kind = "post"
    /\ last.saved
    /\ ~last.wrote
    /\ \E row \in posts :
          /\ row.account_name = Account
          /\ row.rss_url = last.link
          /\ row.title # last.title

\* C18: on the store shared by two accounts' workers, under every interleaving of
\* their calls, a lookup answers "posted" for an account only when a row of that
\* same account matches the link or the title, and a recording or backfill by an
\* account with no row of its own under the key stores its row, whatever rows the
\* other account holds.
C18_AccountsIsolated ==
    ledger.state = "shared" =>
        /\ (ledger.last.op = "is_posted" /\ ledger.last.result)
           => \E row \in ledger.last.pre :
                 /\ row.account_name = ledger.last.account
                 /\ (row.rss_url = ledger.last.link \/ row.title = ledger.last.title)
        /\ (/\ ledger.last.op \in {"record", "backfill"}
            /\ ~HasKey(ledger.last.pre, ledger.last.account, ledger.last.key))
           => \E row \in store.posts.rows \ ledger.last.pre :
                 /\ row.account_name = ledger.last.account
                 /\ row.rss_url = ledger.last.key
                 /\ row.title = ledger.last.title

\* an account records a link while the other account holds a row with that link and
\* title: its own row is added
C18_Witness ==
    /\ ledger.state = "shared"
    /\ ledger.last.op = "record"
    /\ \E row \in ledger.last.pre :
          /\ row.account_name # ledger.last.account
          /\ row.rss_url = ledger.last.key
          /\ row.title = ledger.last.title
    /\ store.posts.rows # ledger.last.pre

\* C19: when one account's worker has aborted on a fatal condition, every other
\* account's worker that is in its loop with a new item in its feed goes on and
\* publishes it.
C19_OthersKeepPublishing ==
    \A a, b \in Accounts :
        (/\ main.state = "running"
         /\ a # b
         /\ main.threads[a].pc = "dead"
         /\ main.threads[b].pc = "loop"
         /\ main.threads[b].feed = "new")
        ~> (main.threads[b].published > 0)

\* the retry part of C20, `recorded` being what the claim says of a successful retry
RetryOnce(recorded) ==
    last.kind = "post" =>
        /\ Len(last.sends) <= 2
        /\ last.attempts = Len(last.sends)
        /\ \A k \in 1..Len(new_entries) : new_entries[k].idx # last.idx
        /\ (last.sends[1].embed # "none" /\ ~last.sends[1].ok) =>
              /\ Len(last.sends) = 2
              /\ last.sends[2].text = last.sends[1].text
              /\ last.sends[2].embed = "none"
              /\ last.sends[2].ok =>
                    /\ last.returned /\ last.sent
                    /\ remote # <<>> /\ remote[Len(remote)].link = last.link
                    /\ remote[Len(remote)].text = last.sends[2].text
                    /\ recorded
              /\ ~last.sends[2].ok =>
                    /\ ~last.returned /\ ~last.sent
                    /\ ~last.saved /\ ~last.wrote

FirstHit ==
    IF cfg.check_database /\ last.link # <<>>
       /\ \E row \in last.pre : row.account_name = Account /\ row.rss_url = last.link
    THEN <<"database", "url">>
    ELSE IF cfg.check_database /\ last.title # <<>>
            /\ \E row \in last.pre : row.account_name = Account /\ row.title = last.title
    THEN <<"database", "title">>
    ELSE IF cfg.check_bluesky_backup /\ TitleInSnapshot(last.title, recent_posts)
    THEN <<"bluesky", "none">>
    ELSE <<"none", "none">>

\* C21: the duplicate check answers at the first of: the ledger by (account, link),
\* the ledger by (account, title), the snapshot; a hit of the ledger, or no hit,
\* leaves the ledger as it was; the only write the check makes is the backfill
\* row of a snapshot hit, and only with auto-backfill and the ledger both enabled.
C21_StepOrderAndFrame ==
    last.kind = "check" =>
        /\ ~last.raised =>
              /\ <<last.hit, last.step>> = FirstHit
              /\ last.result = (last.hit # "none")
        /\ last.hit # "bluesky" => posts = last.pre
        /\ posts # last.pre =>
              /\ cfg.auto_sync_to_database /\ cfg.check_database
              /\ posts \ last.pre =
                    {Row(Account, OrTitle(last.link, last.title), last.title, Now, NoUri,
                         "none")}
              /\ last.pre \subseteq posts

\* a hit of the ledger by title alone for an item the snapshot matches as well: the
\* check stops at the ledger and writes nothing
C21_Witness ==
    /\ last.kind = "check"
    /\ last.hit = "database"
    /\ last.step = "title"
    /\ TitleInSnapshot(last.title, recent_posts)
    /\ cfg.auto_sync_to_database
    /\ posts = last.pre

\* C22: an item the duplicate check classifies as duplicate gets no article-page
\* fetch, does not join the entries to post, and no post is created in its step;
\* the only table change of its step is the backfill of a snapshot hit.  Posts are
\* created only for the head of the entries to post, which only ever receive items
\* classified as not duplicate.
C22_DuplicatesUntouched ==
    [][/\ (pc = "scan" /\ last'.kind = "check" /\ last'.result) =>
              /\ ~last'.imageFetched
              /\ new_entries' = new_entries
              /\ remote' = remote
              /\ posts' # posts => last'.hit = "bluesky"
       /\ (pc = "scan" /\ new_entries' # new_entries) =>
              /\ last'.kind = "check" /\ ~last'.result
              /\ Len(new_entries') = Len(new_entries) + 1
              /\ new_entries'[Len(new_entries')].idx = last'.idx
       /\ remote' # remote =>
              /\ pc = "post" /\ new_entries # <<>>
              /\ last'.kind = "post" /\ last'.idx = Head(new_entries).idx
              /\ new_entries' = Tail(new_entries)]_vars

\* a duplicate by the snapshot, backfilled, while other items wait to be posted
C22_Witness ==
    /\ last.kind = "check"
    /\ last.result
    /\ ~last.imageFetched
    /\ posts # last.pre
    /\ new_entries # <<>>

C24_DelayBetweenItems ==
    last.kind = "post" =>
        last.waited = (IF last.first THEN 0 ELSE InterItemDelay)

\* C25: the feed step accepts the max-items limit that run() passes to it: no
\* cycle ends in run()'s error handler because of the call (and the items up to
\* the limit are then fetched and published).
C25_LimitAccepted == pc # "error"

\* C26: of two items published in one cycle, the one with the earlier publication
\* timestamp is published first: an item is published only after items of the
\* cycle dated no later than it (last.earlier: the dates of the items published
\* before it in the cycle).
C26_OldestFirst ==
    (last.kind = "post" /\ last.sent) =>
        \A d \in last.earlier : d <= last.published

\* C27: an item dated before the minimum date is dropped before the duplicate
\* check: its scan step consults nothing, writes no ledger row, adds nothing to
\* the entries to post and creates no post; only items dated at or after the
\* minimum date are checked, queued or published, and one dated exactly at the
\* minimum date is checked, not dropped.
C27_OldDroppedBeforeCheck ==
    [][/\ (pc = "scan" /\ last'.kind = "old") =>
              /\ last'.published < MinPostDate
              /\ posts' = posts
              /\ new_entries' = new_entries
              /\ remote' = remote
       /\ last'.kind \in {"check", "post"} => last'.published >= MinPostDate
       /\ (pc = "scan" /\ last'.published >= MinPostDate) => last'.kind = "check"
       /\ \A k \in DOMAIN new_entries' : new_entries'[k].published >= MinPostDate]_vars

\* an item dated before the minimum date is dropped although the check would have
\* backfilled it: its title is in the snapshot and no ledger row matches it
C27_Witness ==
    /\ last.kind = "old"
    /\ cfg.check_database /\ cfg.check_bluesky_backup /\ cfg.auto_sync_to_database
    /\ TitleInSnapshot(last.title, recent_posts)
    /\ ~InLedger(posts, last.link, last.title)

\* C28: in a cycle the recent-activity snapshot is fetched at most once, however
\* many items are checked, and not at all with the secondary signal disabled; the
\* duplicate check makes no fetch of its own, the snapshot stays as fetched until
\* the cycle ends, and every check of the cycle is decided against it.
C28_SnapshotOncePerCycle ==
    [][/\ snapCalls' <= 1
       /\ ~cfg.check_bluesky_backup => (snapCalls' = 0 /\ recent_posts' = <<>>)
       /\ (pc # "start" /\ pc' # "start") => recent_posts' = recent_posts
       /\ (pc = "scan" /\ last'.kind = "check") =>
              /\ last'.calls = 0
              /\ snapCalls' = snapCalls
              /\ (~last'.raised /\ last'.hit # "database") =>
                    (last'.result
                       = (cfg.check_bluesky_backup
                            /\ TitleInSnapshot(last'.title, recent_posts)))]_vars

\* the second check of a cycle, answered by the snapshot fetched once at its start
C28_Witness ==
    /\ last.kind = "check"
    /\ last.idx = 2
    /\ last.hit = "bluesky"
    /\ snapCalls = 1

\* C29: with include_images off, whatever the page and the entry's image URL, no
\* link card is fetched, no image is downloaded or uploaded, and every create-post
\* call is made without an embed.
C29_FlagOffTextOnly ==
    (enrich.state = "enriched" /\ ~enrich.include_images) =>
        /\ ~enrich.cardTried
        /\ ~enrich.imageTried
        /\ enrich.card = NoCard
        /\ \A k \in DOMAIN enrich.sends : enrich.sends[k].embed = "none"

\* the flag off for a page that would give a card with a thumbnail and an entry that
\* has an image URL: one text-only call
C29_Witness ==
    /\ enrich.state = "enriched"
    /\ ~enrich.include_images
    /\ enrich.page.fetch = "ok"
    /\ enrich.page.og_title # <<>>
    /\ enrich.page.og_image
    /\ enrich.image_url = "img"
    /\ Len(enrich.sends) = 1
    /\ enrich.sends[1].embed = "none"

\* C30: no failure of the enrichment aborts the item: a create-post call is made
\* whatever fails; a failed thumbnail leaves the link card, without thumbnail; with
\* no card the image step is tried for an entry that has an image URL; with
\* neither, the call is made text-only; and an image is attached only when its
\* encoded size is within the byte budget.
C30_FailSoft ==
    (enrich.state = "enriched" /\ enrich.include_images) =>
        /\ Len(enrich.sends) >= 1
        /\ enrich.sends[1].embed = enrich.embed
        /\ (enrich.page.fetch = "ok" /\ PageHasText(enrich.page)
              /\ enrich.page.og_image /\ ~enrich.thumbOk)
           => (enrich.embed = "card" /\ enrich.card.thumb = "none")
        /\ (enrich.card = NoCard /\ enrich.image_url # "none") => enrich.imageTried
        /\ (enrich.card = NoCard
              /\ (enrich.image_url = "none" \/ enrich.download # "ok" \/ ~enrich.uploadOk))
           => enrich.embed = "none"
        /\ enrich.embed = "image" => enrich.encodedKb <= MaxSizeKb

(***************************************************************************)
(* C31: when a remote call of the worker fails for an authentication       *)
(* reason after the polling loop has started, login is run again and the   *)
(* session is re-established before the worker's later remote calls.       *)
(***************************************************************************)
C31_SessionReestablished ==
    login.rejected ~> ~login.rejected

(***************************************************************************)
(* C32: whenever an account worker terminates unexpectedly it is           *)
(* eventually restarted for the same account, with one configured account  *)
(* as well as with several.                                                *)
(***************************************************************************)
C32_DeadWorkerRestarted ==
    \A a \in Accounts : (main.threads[a].pc = "dead") ~> (main.threads[a].pc = "login")

(***************************************************************************)
(* C33: when the worker is killed between any two statements of a ledger   *)
(* save or of the schema migration and then started again, initialisation  *)
(* succeeds, the ledger holds every entry it held before the kill and no   *)
(* partial one, and an interrupted migration is completed by the next      *)
(* start.  Stated for the stores whose migration completes when it is not  *)
(* interrupted.                                                            *)
(***************************************************************************)
C33_ColdReentry ==
    (cold.kills > 0 /\ ~CopyViolatesUnique(cold.legacy)) =>
        \A a \in cold.handlers :
            /\ cold.h[a].state # "failed"
            /\ cold.h[a].state = "open" =>
                  /\ store.posts.schema = "current"
                  /\ store.posts_new = NoTable
                  /\ cold.kept \subseteq store.posts.rows

(***************************************************************************)
(* C34: a ledger entry created by backfill has the item's own link as key, *)
(* the item's own title, the item's own publication timestamp and no post  *)
(* identifiers; an entry created by the recording step has the item's      *)
(* link, title and timestamp and the identifiers of the post.              *)
(***************************************************************************)
C34_EntryFields ==
    /\ (last.kind = "check" /\ last.hit = "bluesky" /\ posts # last.pre) =>
          posts \ last.pre = {Row(Account, last.link, last.title,
                                  EntryDate(last.published), NoUri, "none")}
    /\ (last.kind = "post" /\ last.wrote) =>
          Row(Account, last.link, last.title, EntryDate(last.published), 1, "url")
              \in posts

(***************************************************************************)
(* C35: after a successful create-post, a failure to resolve the author's  *)
(* handle does not fail the publish: post_entry returns the post's         *)
(* identifier and a permalink built on the account identifier taken from   *)
(* it, and the ledger entry is recorded with both.                         *)
(***************************************************************************)
C35_HandleFallback ==
    (publish.state = "done" /\ publish.sent /\ ~publish.handleOk) =>
        /\ publish.returned
        /\ publish.uri = PostUri
        /\ publish.url = <<"https://bsky.app/profile", PostUri[3], "post", PostUri[5]>>
        /\ (publish.check_database /\ ~publish.saveRaised) =>
              publish.table = {Row(Account, publish.entry.link, publish.entry.title,
                                   EntryDate(publish.entry.published), publish.uri,
                                   publish.url)}

\* the handle does not resolve after the retry without embed succeeded, and the
\* entry is recorded
C35_Witness ==
    /\ publish.state = "done"
    /\ publish.embed = "card"
    /\ publish.sent
    /\ ~publish.handleOk
    /\ publish.check_database
    /\ publish.url[2] = "did:plc:x"
    /\ \E r \in publish.table : r.bluesky_url = publish.url /\ r.bluesky_uri = PostUri

\* the worker's positions inside run()'s loop
LoopPcs == {"start", "fetch", "error"}

(***************************************************************************)
(* C36: once the worker is in its polling loop no error of a cycle ends    *)
(* the loop: the worker stays in the loop, every cycle that has begun is   *)
(* followed by the start of another, and every start by the cycle itself.  *)
(***************************************************************************)
C36_LoopNeverEnds ==
    /\ [][(pc \in LoopPcs) => (pc' \in LoopPcs)]_vars
    /\ (pc \in {"fetch", "error"}) ~> (pc = "start")
    /\ (pc = "start") ~> (pc = "fetch")

\* at the start of a new cycle after a cycle whose snapshot fetch was rejected and
\* whose feed fetch raised
C36_Witness ==
    /\ pc = "start"
    /\ login.rejected
    /\ ~snapFailed

(***************************************************************************)
(* C37: when two workers open the same un-migrated store at the same time  *)
(* and both run the migration, for every interleaving of their statements  *)
(* both initialisations complete, the store ends with the current schema   *)
(* and every row it held is present exactly once.  Stated for the stores   *)
(* whose migration completes when one handler runs it alone.               *)
(***************************************************************************)
C37_ConcurrentMigration ==
    ~CopyViolatesUnique(cold.legacy) =>
        /\ \A a \in cold.handlers : cold.h[a].state # "failed"
        /\ (\A a \in cold.handlers : cold.h[a].state = "open") =>
              /\ store.posts.schema = "current"
              /\ store.posts_new = NoTable
              /\ store.posts.rows = cold.kept
              /\ Cardinality(store.posts.rows) = Cardinality(cold.legacy.rows)

====
